---- MODULE Spec2Model ----
(***************************************************************************)
(* Model of the news-driven trading notebook: the broker wrapper           *)
(* TradeExecutor.place_order and the backtest hook SentimentStrategy.next. *)
(* The notebook keeps no state of its own; the state below is the state of *)
(* its collaborators (the broker's order book, the backtest run) together  *)
(* with the history of what each call was given and what it returned.      *)
(***************************************************************************)
EXTENDS Integers, Sequences, FiniteSets

\* ------------------------------------------------------------ bounds

\* Calls of place_order in one behaviour.
MaxCalls == 3
\* Distinct order requests (client_order_id values) the caller holds.
MaxRequests == 2
\* Bars of the recorded log that one backtest run replays.
MaxBars == 3

\* ------------------------------------------------------------ constants

\* `sentiment_score > 0.5` / `sentiment_score < -0.5`, in tenths.
Threshold == 5

\* ------------------------------------------------------------ executor

\* The value place_order returns from its except branch.
None == 0

Requests == 1..MaxRequests
Sides == {"buy", "sell"}

\* What one api.submit_order call can do: return the order; raise a broker
\* rejection (invalid symbol, insufficient buying power); raise a timeout /
\* 5xx with the order not booked; raise a timeout after the broker booked it.
Outcomes ==
    { [failure |-> "none",      accepted |-> TRUE],
      [failure |-> "permanent", accepted |-> FALSE],
      [failure |-> "transient", accepted |-> FALSE],
      [failure |-> "transient", accepted |-> TRUE] }

VARIABLES
    orders,     \* broker: the orders it has booked, in booking order
    calls,      \* history: one record per finished place_order call
    bar,        \* per run: bars of the log already handed to next()
    decisions,  \* per run: what next() did on each bar it finished
    handled,    \* per run: the events next() looked at, in order
    crashed     \* per run: an exception left next() and stopped the run

vars == <<orders, calls, bar, decisions, handled, crashed>>

Runs == {1, 2}

\* api.submit_order(symbol=..., qty=..., side=..., type=..., time_in_force=...):
\* no client_order_id is passed, so the broker books a new order under an id
\* of its own for every accepted call.  `client_order_id` records which of the
\* caller's requests the call was made for; the broker never sees it.
BrokerBook(book, req, side, out) ==
    IF out.accepted
    THEN Append(book, [id |-> Len(book) + 1, client_order_id |-> req, side |-> side])
    ELSE book

\* Mutant: a wrapper with a retry loop around submit_order.
SubmitAttemptsRetrying(out) == IF out.failure = "transient" THEN 2 ELSE 1

\* The try block holds one submit_order call and no loop.
SubmitAttempts(out) == 1

\* `return order` when submit_order returned, `return None` from
\* `except Exception`: every exception, whatever its class.
PlaceOrderReturn(book, out) ==
    IF out.failure = "none" THEN Len(book) ELSE None

\* TradeExecutor.place_order(symbol, qty, side, type, time_in_force).
PlaceOrder(req, side, out) ==
    /\ Len(calls) < MaxCalls
    /\ orders' = BrokerBook(orders, req, side, out)
    /\ calls' = Append(calls,
                  [client_order_id |-> req,
                   side     |-> side,
                   failure  |-> out.failure,
                   accepted |-> out.accepted,
                   attempts |-> SubmitAttempts(out),
                   result   |-> PlaceOrderReturn(orders', out)])
    /\ UNCHANGED <<bar, decisions, handled, crashed>>

NextExecutor ==
    \E req \in Requests, side \in Sides, out \in Outcomes : PlaceOrder(req, side, out)

\* ------------------------------------------------------------ strategy

Labels == {"positive", "negative", "neutral"}
\* The classifier's score for its label, in tenths.
Scores == {3, 5, 9}
\* The recorded log is in time order: bar k carries timestamp k.
BarTime(k) == k
\* publishedAt of the article a fetch returns first.  The fetch asks for the
\* newest articles at the moment it runs; what it returns is not tied to the
\* bar being replayed.
NewsTimes == 1..MaxBars

\* What the collaborators of one next() call can do.
\*   fetch_error : news_fetcher.fetch_news raises
\*   no_articles : fetch_news returns []
\*   malformed   : articles[0] has no usable 'title'
\*   unscoreable : analyze_sentiment raises, or returns nothing to index
\*   scored      : analyze_sentiment returns [{'label': ..., 'score': ...}]
Fetches ==
    { [kind |-> k, label |-> "neutral", score |-> 3, ts |-> 1] :
        k \in {"fetch_error", "no_articles"} }
    \cup
    { [kind |-> k, label |-> "neutral", score |-> 3, ts |-> t] :
        k \in {"malformed", "unscoreable"}, t \in NewsTimes }
    \cup
    { [kind |-> "scored", label |-> l, score |-> s, ts |-> t] :
        l \in Labels, s \in Scores, t \in NewsTimes }

\* sentiment[0]['score'] if sentiment[0]['label'] == 'positive' else -sentiment[0]['score']
SentimentScore(label, score) == IF label = "positive" THEN score ELSE -score

\* Mutant: the comparisons written with >= and <=.
SignalInclusive(label, score) ==
    IF SentimentScore(label, score) >= Threshold THEN "buy"
    ELSE IF SentimentScore(label, score) <= -Threshold THEN "sell"
    ELSE "none"

\* if sentiment_score > 0.5: buy  elif sentiment_score < -0.5: sell
Signal(label, score) ==
    IF SentimentScore(label, score) > Threshold THEN "buy"
    ELSE IF SentimentScore(label, score) < -Threshold THEN "sell"
    ELSE "none"

\* next() has no try/except: an exception raised by fetch_news, by the
\* ['title'] lookup or by analyze_sentiment leaves next() and ends the run.
Raises(f) == f.kind \in {"fetch_error", "malformed", "unscoreable"}

\* The events next() has looked at once it is done with fetch f on bar k:
\* the bar, then the first article when there is one.
Handed(seen, k, f) ==
    IF f.kind \in {"fetch_error", "no_articles"}
    THEN Append(seen, [kind |-> "bar", ts |-> BarTime(k)])
    ELSE Append(Append(seen, [kind |-> "bar", ts |-> BarTime(k)]),
                [kind |-> "news", ts |-> f.ts])

\* SentimentStrategy.next(), called by the backtest once per bar of run r.
StrategyNext(r, f) ==
    /\ ~crashed[r]
    /\ bar[r] < MaxBars
    /\ bar' = [bar EXCEPT ![r] = @ + 1]
    /\ handled' = [handled EXCEPT ![r] = Handed(@, bar[r] + 1, f)]
    /\ IF Raises(f)
       THEN /\ crashed' = [crashed EXCEPT ![r] = TRUE]
            /\ UNCHANGED decisions
       ELSE /\ decisions' = [decisions EXCEPT ![r] = Append(@,
                IF f.kind = "no_articles" THEN "none" ELSE Signal(f.label, f.score))]
            /\ UNCHANGED crashed
    /\ UNCHANGED <<orders, calls>>

\* One backtest run.
NextBacktest == \E f \in Fetches : StrategyNext(1, f)

\* The same recorded log replayed twice.
NextReplay == \E r \in Runs, f \in Fetches : StrategyNext(r, f)

Init ==
    /\ orders = <<>>
    /\ calls = <<>>
    /\ bar = [r \in Runs |-> 0]
    /\ decisions = [r \in Runs |-> <<>>]
    /\ handled = [r \in Runs |-> <<>>]
    /\ crashed = [r \in Runs |-> FALSE]

\* The whole notebook.  The executor and the strategy share no state (nothing
\* in the notebook calls place_order from next()), so the properties below are
\* checked under the specification of the half they are about.
Next == NextExecutor \/ NextReplay

Spec == Init /\ [][Next]_vars

SpecExecutor == Init /\ [][NextExecutor]_vars

SpecBacktest == Init /\ [][NextBacktest]_vars

SpecReplay == Init /\ [][NextReplay]_vars

\* ------------------------------------------------------------ properties

\* The orders the broker has booked for request req.
LiveFor(req) == { i \in DOMAIN orders : orders[i].client_order_id = req }

\* The buy/sell decisions of run r, in order, with the bars on which next()
\* did nothing left out.
RECURSIVE Intents(_)
Intents(ds) ==
    IF ds = <<>> THEN <<>>
    ELSE IF ds[1] = "none" THEN Intents(Tail(ds))
    ELSE <<ds[1]>> \o Intents(Tail(ds))

\* C1: whatever the sequence of submissions, repeated submissions of one
\* request included, the broker holds at most one live order per
\* client_order_id.
AtMostOneLiveOrderPerRequest ==
    \A req \in Requests : Cardinality(LiveFor(req)) <= 1

\* C2: a submission that fails with a timeout leaves the order in a state
\* (ERROR) that differs from the state a rejected submission leaves it in
\* (REJECTED): what the caller holds after the one is never what it holds
\* after the other.
TimeoutIsNotRejection ==
    \A i, j \in DOMAIN calls :
        (calls[i].failure = "transient" /\ calls[j].failure = "permanent")
            => calls[i].result # calls[j].result

\* C3: a submission that fails transiently is retried: a call whose
\* submit attempt met a timeout or 5xx has made a further attempt by the
\* time it returns.
TransientFailureIsRetried ==
    \A i \in DOMAIN calls :
        calls[i].failure = "transient" => calls[i].attempts >= 2

\* C5: no two consecutive intents of a run have the same direction.
NoRepeatedIntentDirection ==
    \A k \in 1..(Len(Intents(decisions[1])) - 1) :
        Intents(decisions[1])[k] # Intents(decisions[1])[k + 1]

\* C6: two replays of the same recorded log take the same decision on every
\* bar both have processed.
ReplayYieldsSameDecisions ==
    \A k \in DOMAIN decisions[1] \cap DOMAIN decisions[2] :
        decisions[1][k] = decisions[2][k]

\* C7: the events handed to the strategy are non-decreasing in timestamp,
\* and at an identical timestamp the bar comes before the news event.
HandledInTimestampOrder ==
    \A k \in 1..(Len(handled[1]) - 1) :
        /\ handled[1][k].ts <= handled[1][k + 1].ts
        /\ handled[1][k].ts = handled[1][k + 1].ts
              => ~(handled[1][k].kind = "news" /\ handled[1][k + 1].kind = "bar")

\* The loosest limit that still binds when every bar of a window carries a
\* score beyond the threshold: one order fewer than the window has bars.
\* The window is the replayed log.
max_orders_per_window == MaxBars - 1

\* C8: in every window the number of orders submitted is at most
\* max_orders_per_window.
OrdersPerWindowBounded ==
    Len(Intents(decisions[1])) <= max_orders_per_window

\* C9: a data quality failure on one event never crashes the strategy.
StrategyNeverCrashes == ~crashed[1]

\* C10: place_order makes exactly one submit attempt per call and never
\* raises; it returns the broker's order object when the attempt returned
\* and None when it raised, whatever the exception, so that after a failure
\* the caller holds the same value whether or not the broker booked the order.
PlaceOrderOneAttemptOrderOrNone ==
    \A i \in DOMAIN calls :
        /\ calls[i].attempts = 1
        /\ calls[i].failure = "none" =>
              /\ calls[i].result \in DOMAIN orders
              /\ orders[calls[i].result].id = calls[i].result
              /\ orders[calls[i].result].client_order_id = calls[i].client_order_id
              /\ orders[calls[i].result].side = calls[i].side
        /\ calls[i].failure # "none" => calls[i].result = None

\* C10 witness: one call returned an order, another met a rejection, and two
\* met a timeout, of which the broker booked one and not the other.
PlaceOrderWitness ==
    /\ \E i \in DOMAIN calls : calls[i].failure = "none" /\ calls[i].result # None
    /\ \E i, j \in DOMAIN calls :
          /\ calls[i].failure = "transient" /\ calls[i].accepted
          /\ calls[j].failure = "permanent" /\ ~calls[j].accepted
          /\ calls[i].result = calls[j].result

\* What the rule of C11 prescribes for a bar whose fetch is f: nothing when
\* no article came back or the first article's score is at most 0.5; else buy
\* for the label 'positive' and sell for any other label.
PrescribedAction(f) ==
    IF f.kind = "no_articles" THEN "none"
    ELSE IF f.score > Threshold
         THEN (IF f.label = "positive" THEN "buy" ELSE "sell")
         ELSE "none"

\* C11: on each bar next() takes exactly one decision (buy, sell or nothing),
\* and it is the one the first fetched article prescribes: buy exactly for
\* the label 'positive' with a score above 0.5, sell exactly for any other
\* label with a score above 0.5, nothing when there is no article or the
\* score is at most 0.5, whatever the run has decided on earlier bars.
NextDecidesFromFirstArticle ==
    [][\A f \in Fetches :
          (f.kind \in {"no_articles", "scored"} /\ StrategyNext(1, f))
              => decisions'[1] = Append(decisions[1], PrescribedAction(f))]_vars

\* C11 witness: a run that bought, sold and did nothing on three bars in a
\* row, each of them with an article fetched and scored.
NextDecidesWitness ==
    /\ decisions[1] = <<"buy", "sell", "none">>
    /\ Len(handled[1]) = 6
    /\ ~crashed[1]

====
